---- MODULE Spec2Model ----
(***************************************************************************)
(* A model of graphene_django_cud/util.py: the identifier disambiguator,   *)
(* the nested-field normalizer, the extras field-name helpers and the two  *)
(* input-field builders.  Every function of the file is a pure function    *)
(* of its arguments, so the state is one call: which function was called,  *)
(* the arguments it was given and the outcome it produced.                 *)
(*                                                                         *)
(* Python values are tagged records so that an int and a str never compare *)
(* equal: [t |-> "int", n |-> 3], [t |-> "str", s |-> <<"3">>].  A str is   *)
(* the sequence of its characters.  An ordered mapping (dict, OrderedDict) *)
(* is the sequence of its <<key, value>> pairs in insertion order.         *)
(***************************************************************************)
EXTENDS Integers, Sequences, FiniteSets, TLC

VARIABLES call, args, result

vars == <<call, args, result>>

(* ------------------------------------------------------------------------ *)
(* Python values and outcomes                                               *)
(* ------------------------------------------------------------------------ *)
PyInt(n) == [t |-> "int", n |-> n]
PyStr(s) == [t |-> "str", s |-> s]
PyNone == [t |-> "none"]

Returned(v) == [kind |-> "return", val |-> v]
Raised(e) == [kind |-> "raise", exc |-> e]

\* All sequences over S of length at most n.
SeqsUpTo(S, n) == UNION {[1..k -> S] : k \in 0..n}

\* The set of elements of a sequence.
Range(s) == {s[i] : i \in 1..Len(s)}

(* ------------------------------------------------------------------------ *)
(* int(x): Python's integer parse, on the characters of the model           *)
(* ------------------------------------------------------------------------ *)
Digits == {"0", "1", "2", "3", "4", "5", "6", "7", "8", "9"}

DigitVal(c) ==
    CASE c = "0" -> 0 [] c = "1" -> 1 [] c = "2" -> 2 [] c = "3" -> 3
      [] c = "4" -> 4 [] c = "5" -> 5 [] c = "6" -> 6 [] c = "7" -> 7
      [] c = "8" -> 8 [] c = "9" -> 9

RECURSIVE DecimalValue(_)
DecimalValue(s) ==
    IF s = <<>> THEN 0
    ELSE 10 * DecimalValue(SubSeq(s, 1, Len(s) - 1)) + DigitVal(s[Len(s)])

\* The digits of a literal once an optional sign is removed.
Unsigned(s) == IF s # <<>> /\ s[1] \in {"-", "+"} THEN Tail(s) ELSE s

\* int(str) accepts an optional sign followed by at least one digit
\* (whitespace and underscores are outside the model's alphabet).
IsIntLiteral(s) ==
    /\ Unsigned(s) # <<>>
    /\ \A i \in 1..Len(Unsigned(s)) : Unsigned(s)[i] \in Digits

IntLiteralValue(s) ==
    IF s[1] = "-" THEN 0 - DecimalValue(Unsigned(s)) ELSE DecimalValue(Unsigned(s))

\* int(x) for the token kinds of the model: the value, or the exception.
PyIntOf(x) ==
    CASE x.t = "int" -> Returned(PyInt(x.n))
      [] x.t = "str" -> IF IsIntLiteral(x.s)
                        THEN Returned(PyInt(IntLiteralValue(x.s)))
                        ELSE Raised("ValueError")
      [] OTHER -> Raised("TypeError")

(* ------------------------------------------------------------------------ *)
(* graphql_relay.from_global_id: base64, then utf-8, then split on ":"      *)
(* ------------------------------------------------------------------------ *)
B64Alphabet == {"V", "D", "o", "x", "y", "0", "1"}

B64Val(c) ==
    CASE c = "V" -> 21 [] c = "D" -> 3 [] c = "o" -> 40
      [] c = "x" -> 49 [] c = "y" -> 50 [] c = "0" -> 52 [] c = "1" -> 53

\* b64decode (non-validating) discards the characters outside the alphabet.
RECURSIVE B64Filter(_)
B64Filter(s) ==
    IF s = <<>> THEN <<>>
    ELSE IF s[1] \in B64Alphabet THEN <<s[1]>> \o B64Filter(Tail(s))
    ELSE B64Filter(Tail(s))

\* The three bytes of one group of four characters.
B64Group(c1, c2, c3, c4) ==
    << B64Val(c1) * 4 + (B64Val(c2) \div 16),
       (B64Val(c2) % 16) * 16 + (B64Val(c3) \div 4),
       (B64Val(c3) % 4) * 64 + B64Val(c4) >>

RECURSIVE B64Bytes(_)
B64Bytes(s) ==
    IF s = <<>> THEN <<>>
    ELSE B64Group(s[1], s[2], s[3], s[4]) \o B64Bytes(SubSeq(s, 5, Len(s)))

\* The character of an ASCII byte; "?" stands for the ASCII characters the
\* model gives no name to.
ByteChar(b) ==
    CASE b = 84 -> "T" [] b = 58 -> ":" [] b = 45 -> "-"
      [] b \in 48..57 -> CHOOSE d \in Digits : DigitVal(d) = b - 48
      [] OTHER -> "?"

\* unbase64(s): the decoded text, or failure.  A group count that is not
\* whole is "Incorrect padding"; within the alphabet and lengths of the
\* model a byte >= 128 never starts a well-formed utf-8 sequence that is
\* followed by ":", so such a text is reported as undecodable.
Unbase64(s) ==
    LET f == B64Filter(s) IN
    IF Len(f) % 4 # 0 THEN [ok |-> FALSE]
    ELSE LET bs == B64Bytes(f) IN
         IF \E i \in 1..Len(bs) : bs[i] >= 128 THEN [ok |-> FALSE]
         ELSE [ok |-> TRUE, text |-> [i \in 1..Len(bs) |-> ByteChar(bs[i])]]

\* The position of the first ":" of a text, 0 when there is none.
FirstColon(s) ==
    IF \E i \in 1..Len(s) : s[i] = ":"
    THEN CHOOSE i \in 1..Len(s) : s[i] = ":" /\ \A j \in 1..(i - 1) : s[j] # ":"
    ELSE 0

\* from_global_id(token): (type name, local id), both str, or failure.
\* A token that is not a str cannot be decoded.
from_global_id(token) ==
    IF token.t # "str" THEN [ok |-> FALSE]
    ELSE LET u == Unbase64(token.s) IN
         IF ~u.ok THEN [ok |-> FALSE]
         ELSE LET c == FirstColon(u.text) IN
              IF c = 0 THEN [ok |-> FALSE]
              ELSE [ok |-> TRUE,
                    type |-> PyStr(SubSeq(u.text, 1, c - 1)),
                    id |-> PyStr(SubSeq(u.text, c + 1, Len(u.text)))]

(* ------------------------------------------------------------------------ *)
(* disambiguate_id                                                          *)
(* ------------------------------------------------------------------------ *)
\* The value final_id is initialised to.
InitialFinalId == PyInt(0 - 1)

\* How a try/except/finally statement ends when its finally clause executes
\* "return v": the return replaces whatever was pending, a return of the
\* try body as well as an exception raised in the body or in a handler.
FinallyReturn(pending, v) == Returned(v)

\* A variant that tries the relay decoding before the integer parse.
disambiguate_id_decode_first(ambiguous_id) ==
    LET g == from_global_id(ambiguous_id)
        parsed == PyIntOf(ambiguous_id)
    IN  IF g.ok THEN [out |-> Returned(g.id), decoded |-> TRUE]
        ELSE IF parsed.kind = "return"
        THEN [out |-> Returned(parsed.val), decoded |-> TRUE]
        ELSE [out |-> Returned(InitialFinalId), decoded |-> TRUE]

\* disambiguate_id(ambiguous_id): the outcome and whether from_global_id
\* was called.
disambiguate_id(ambiguous_id) ==
    LET parsed == PyIntOf(ambiguous_id) IN
    IF parsed.kind = "return"
    THEN \* try: final_id = int(ambiguous_id); return final_id
         [out |-> FinallyReturn(Returned(parsed.val), parsed.val),
          decoded |-> FALSE]
    ELSE IF parsed.exc = "ValueError"
    THEN \* except ValueError: (_, final_id) = from_global_id(ambiguous_id)
         LET g == from_global_id(ambiguous_id) IN
         IF g.ok
         THEN [out |-> FinallyReturn(Returned(PyNone), g.id), decoded |-> TRUE]
         ELSE [out |-> FinallyReturn(Raised("DecodeError"), InitialFinalId),
               decoded |-> TRUE]
    ELSE \* any other exception of int() reaches the finally clause directly
         [out |-> FinallyReturn(Raised(parsed.exc), InitialFinalId),
          decoded |-> FALSE]

(* ------------------------------------------------------------------------ *)
(* Ordered mappings: dict and OrderedDict                                   *)
(* ------------------------------------------------------------------------ *)
DictKeys(d) == [i \in 1..Len(d) |-> d[i][1]]

DictHas(d, k) == \E i \in 1..Len(d) : d[i][1] = k

DictIndex(d, k) == CHOOSE i \in 1..Len(d) : d[i][1] = k

\* d[k], for a key d has.
DictGet(d, k) == d[DictIndex(d, k)][2]

\* A variant of d[k] = v that moves an existing key to the end.
DictSetMoveToEnd(d, k, v) ==
    LET kept == {i \in 1..Len(d) : d[i][1] # k}
        rest == [j \in 1..Cardinality(kept) |->
                   d[CHOOSE i \in kept : Cardinality({h \in kept : h < i}) = j - 1]]
    IN  Append(rest, <<k, v>>)

\* d[k] = v: an existing key keeps its position and takes the new value, a
\* new key goes to the end.
DictSet(d, k, v) ==
    IF DictHas(d, k)
    THEN [i \in 1..Len(d) |-> IF d[i][1] = k THEN <<k, v>> ELSE d[i]]
    ELSE Append(d, <<k, v>>)

PyDict(items) == [t |-> "dict", items |-> items]
PyList(items) == [t |-> "list", items |-> items]
PyBool(b) == [t |-> "bool", b |-> b]

\* Python's truth value of the values of the model.
Truthy(x) ==
    CASE x.t = "none" -> FALSE
      [] x.t = "bool" -> x.b
      [] x.t = "int" -> x.n # 0
      [] x.t = "str" -> x.s # <<>>
      [] x.t = "input" -> TRUE
      [] OTHER -> x.items # <<>>

(* ------------------------------------------------------------------------ *)
(* overload_nested_fields                                                   *)
(* ------------------------------------------------------------------------ *)
AllOperations == PyList(<<PyStr(<<"a", "l", "l">>)>>)

\* hasattr(x, "__iter__"): a list and a str are iterable, an int is not.
HasIter(x) == x.t \in {"list", "str", "dict"}

\* The elements iterating x yields: the items of a list, the characters of
\* a str (each a str of length one).
IterItems(x) ==
    IF x.t = "str" THEN [i \in 1..Len(x.s) |-> PyStr(<<x.s[i]>>)] ELSE x.items

\* A variant of the loop that skips an entry that is not a string.
RECURSIVE NestedLoopSkipping(_, _)
NestedLoopSkipping(els, res) ==
    IF els = <<>> THEN Returned(PyDict(res))
    ELSE IF els[1].t # "str" THEN NestedLoopSkipping(Tail(els), res)
    ELSE NestedLoopSkipping(Tail(els), DictSet(res, els[1].s, AllOperations))

\* for el in nested_fields: raise on a non-string, else result[el] = ["all"]
RECURSIVE NestedLoop(_, _)
NestedLoop(els, res) ==
    IF els = <<>> THEN Returned(PyDict(res))
    ELSE IF els[1].t # "str" THEN Raised("ValueError")
    ELSE NestedLoop(Tail(els), DictSet(res, els[1].s, AllOperations))

overload_nested_fields(nested_fields) ==
    IF nested_fields.t = "none" THEN Returned(PyDict(<<>>))
    ELSE IF nested_fields.t = "dict" THEN Returned(nested_fields)
    ELSE IF HasIter(nested_fields) THEN NestedLoop(IterItems(nested_fields), <<>>)
    ELSE Returned(PyDict(<<>>))

(* ------------------------------------------------------------------------ *)
(* get_m2m_all_extras_field_names, get_fk_all_extras_field_names            *)
(* ------------------------------------------------------------------------ *)
\* Names and operations are str; as keys of the mappings of the model they
\* are written as their character sequences.
OpExact == <<"e", "x", "a", "c", "t">>

\* name + "_" + extra_name
ExtraKey(name, extra_name) == name \o <<"_">> \o extra_name

\* A variant that derives a name for "exact" like for any other operation.
RECURSIVE M2mNamesOfEntryAllDerived(_, _)
M2mNamesOfEntryAllDerived(name, extra) ==
    IF extra = <<>> THEN <<>>
    ELSE <<ExtraKey(name, extra[1][1])>> \o M2mNamesOfEntryAllDerived(name, Tail(extra))

\* for extra_name, _ in extra.items(): the names one field contributes
RECURSIVE M2mNamesOfEntry(_, _)
M2mNamesOfEntry(name, extra) ==
    IF extra = <<>> THEN <<>>
    ELSE (IF extra[1][1] # OpExact
          THEN <<ExtraKey(name, extra[1][1])>>
          ELSE <<name>>) \o M2mNamesOfEntry(name, Tail(extra))

\* for name, extra in extras.items()
RECURSIVE M2mNamesLoop(_)
M2mNamesLoop(items) ==
    IF items = <<>> THEN <<>>
    ELSE M2mNamesOfEntry(items[1][1], items[1][2].items) \o M2mNamesLoop(Tail(items))

get_m2m_all_extras_field_names(extras) ==
    IF ~Truthy(extras) THEN Returned(PyList(<<>>))
    ELSE Returned(PyList(M2mNamesLoop(extras.items)))

\* extras.keys(): a view of the keys, not a list
get_fk_all_extras_field_names(extras) ==
    IF ~Truthy(extras) THEN Returned(PyList(<<>>))
    ELSE Returned([t |-> "dict_keys", items |-> DictKeys(extras.items)])

(* ------------------------------------------------------------------------ *)
(* The converters of graphene_django_cud.converter                          *)
(* ------------------------------------------------------------------------ *)
\* convert_django_field_with_choices(field, registry, required,
\* field_many_to_many_extras, field_foreign_key_extras): the input type is
\* a function of what the converter is given, so it is that record.
convert_django_field_with_choices(field, required, m2m_exact, fk_extras) ==
    [t |-> "input", conv |-> "field", field |-> field, required |-> required,
     m2m |-> m2m_exact, fk |-> fk_extras]

\* convert_many_to_many_field(field, registry, required, data, None): an
\* input type, or nothing for the fields in `nothing`.
convert_many_to_many_field(field, required, data, nothing) ==
    IF field.name \in nothing THEN PyNone
    ELSE [t |-> "input", conv |-> "m2m", field |-> field, required |-> required,
          m2m |-> data, fk |-> PyNone]

(* ------------------------------------------------------------------------ *)
(* get_input_fields_for_model                                               *)
(* ------------------------------------------------------------------------ *)
RaisedFor(e, name) == [kind |-> "raise", exc |-> e, field |-> name]

\* x or {}
OrEmptyDict(x) == IF Truthy(x) THEN x ELSE PyDict(<<>>)

\* d.get(k, default) on the items of a mapping
GetOr(items, k, default) == IF DictHas(items, k) THEN DictGet(items, k) ELSE default

\* getattr(field, "primary_key", False)
PrimaryKeyIgnored(field) == FALSE
PrimaryKey(field) == field.primary_key

\* str(name).endswith("+")
IsNoBackref(name) == name # <<>> /\ name[Len(name)] = "+"

\* is_not_in_only or is_excluded or is_no_backref
IsSkipped(name, only_fields, exclude_fields) ==
    \/ (only_fields # {} /\ name \notin only_fields)
    \/ name \in exclude_fields
    \/ IsNoBackref(name)

\* A variant in which required_fields is looked at first.
RequiredFirst(name, optional_fields, required_fields) ==
    IF name \in required_fields THEN PyBool(TRUE)
    ELSE IF name \in optional_fields THEN PyBool(FALSE)
    ELSE PyNone

\* required = None; if name in optional_fields: False; elif name in
\* required_fields: True
Required(name, optional_fields, required_fields) ==
    IF name \in optional_fields THEN PyBool(FALSE)
    ELSE IF name \in required_fields THEN PyBool(TRUE)
    ELSE PyNone

\* many_to_many_extras.get(name, {}).get('exact')
ExactExtra(m2m, name) == GetOr(GetOr(m2m.items, name, PyDict(<<>>)).items, OpExact, PyNone)

\* foreign_key_extras.get(name, {})
FkExtra(fk, name) == GetOr(fk.items, name, PyDict(<<>>))

\* The first loop, from the i-th reflected field on.  st holds fields and
\* fields_lookup; a holds the arguments of the call.
RECURSIVE BaseLoop(_, _, _)
BaseLoop(a, i, st) ==
    IF i > Len(a.model_fields) THEN st
    ELSE LET name == a.model_fields[i][1]
             field == a.model_fields[i][2]
         IN  IF PrimaryKey(field) THEN BaseLoop(a, i + 1, st)
             ELSE LET lookup == DictSet(st.fields_lookup, name, field) IN
                  IF IsSkipped(name, a.only_fields, a.exclude_fields)
                  THEN BaseLoop(a, i + 1, [st EXCEPT !.fields_lookup = lookup])
                  ELSE LET converted ==
                             convert_django_field_with_choices(
                                 field,
                                 Required(name, a.optional_fields, a.required_fields),
                                 ExactExtra(OrEmptyDict(a.many_to_many_extras), name),
                                 FkExtra(OrEmptyDict(a.foreign_key_extras), name))
                       IN  BaseLoop(a, i + 1,
                                    [fields |-> DictSet(st.fields, name, converted),
                                     fields_lookup |-> lookup])

\* if isinstance(data, bool): data = {}
ExtraData(data) == IF data.t = "bool" THEN PyDict(<<>>) ELSE data

\* The loop over the operations of one field, from the j-th on: the fields
\* mapping, or the exception that ends the call.
RECURSIVE OperationsLoop(_, _, _, _, _, _)
OperationsLoop(a, name, field, extras, j, fields) ==
    IF j > Len(extras) THEN [ok |-> TRUE, fields |-> fields]
    ELSE LET extra_name == extras[j][1]
             data == ExtraData(extras[j][2])
             made == convert_many_to_many_field(field, PyBool(FALSE), data, a.m2m_nothing)
         IN  IF extra_name = OpExact
             THEN OperationsLoop(a, name, field, extras, j + 1, fields)
             ELSE IF Truthy(made)
             THEN OperationsLoop(a, name, field, extras, j + 1,
                                 DictSet(fields, ExtraKey(name, extra_name), made))
             ELSE IF ~DictHas(fields, name)
             THEN [ok |-> FALSE, out |-> RaisedFor("KeyError", name)]
             ELSE OperationsLoop(a, name, field, extras, j + 1,
                                 DictSet(fields, ExtraKey(name, extra_name),
                                         DictGet(fields, name)))

\* A variant that passes over an entry whose field is unknown.
RECURSIVE ExtrasLoopSkipUnknown(_, _, _, _)
ExtrasLoopSkipUnknown(a, m2m, i, st) ==
    IF i > Len(m2m) THEN Returned(PyDict(st.fields))
    ELSE LET name == m2m[i][1] IN
         IF ~DictHas(st.fields_lookup, name)
         THEN ExtrasLoopSkipUnknown(a, m2m, i + 1, st)
         ELSE LET r == OperationsLoop(a, name, DictGet(st.fields_lookup, name),
                                      m2m[i][2].items, 1, st.fields)
              IN  IF r.ok
                  THEN ExtrasLoopSkipUnknown(a, m2m, i + 1, [st EXCEPT !.fields = r.fields])
                  ELSE r.out

\* The loop over many_to_many_extras, from the i-th entry on.
RECURSIVE ExtrasLoop(_, _, _, _)
ExtrasLoop(a, m2m, i, st) ==
    IF i > Len(m2m) THEN Returned(PyDict(st.fields))
    ELSE LET name == m2m[i][1] IN
         IF ~DictHas(st.fields_lookup, name)
         THEN RaisedFor("GraphQLError", name)
         ELSE LET r == OperationsLoop(a, name, DictGet(st.fields_lookup, name),
                                      m2m[i][2].items, 1, st.fields)
              IN  IF r.ok
                  THEN ExtrasLoop(a, m2m, i + 1, [st EXCEPT !.fields = r.fields])
                  ELSE r.out

get_input_fields_for_model(a) ==
    ExtrasLoop(a, OrEmptyDict(a.many_to_many_extras).items, 1,
               BaseLoop(a, 1, [fields |-> <<>>, fields_lookup |-> <<>>]))

(* ------------------------------------------------------------------------ *)
(* get_all_optional_input_fields_for_model                                  *)
(* ------------------------------------------------------------------------ *)
RECURSIVE AllOptionalBaseLoop(_, _, _)
AllOptionalBaseLoop(a, i, st) ==
    IF i > Len(a.model_fields) THEN st
    ELSE LET name == a.model_fields[i][1]
             field == a.model_fields[i][2]
         IN  IF PrimaryKey(field) THEN AllOptionalBaseLoop(a, i + 1, st)
             ELSE LET lookup == DictSet(st.fields_lookup, name, field) IN
                  IF IsSkipped(name, a.only_fields, a.exclude_fields)
                  THEN AllOptionalBaseLoop(a, i + 1, [st EXCEPT !.fields_lookup = lookup])
                  ELSE LET converted ==
                             convert_django_field_with_choices(
                                 field,
                                 PyBool(FALSE),
                                 ExactExtra(OrEmptyDict(a.many_to_many_extras), name),
                                 FkExtra(OrEmptyDict(a.foreign_key_extras), name))
                       IN  AllOptionalBaseLoop(a, i + 1,
                                    [fields |-> DictSet(st.fields, name, converted),
                                     fields_lookup |-> lookup])

RECURSIVE AllOptionalOperationsLoop(_, _, _, _, _, _)
AllOptionalOperationsLoop(a, name, field, extras, j, fields) ==
    IF j > Len(extras) THEN [ok |-> TRUE, fields |-> fields]
    ELSE LET extra_name == extras[j][1]
             data == ExtraData(extras[j][2])
             made == convert_many_to_many_field(field, PyBool(FALSE), data, a.m2m_nothing)
         IN  IF extra_name = OpExact
             THEN AllOptionalOperationsLoop(a, name, field, extras, j + 1, fields)
             ELSE IF Truthy(made)
             THEN AllOptionalOperationsLoop(a, name, field, extras, j + 1,
                                 DictSet(fields, ExtraKey(name, extra_name), made))
             ELSE IF ~DictHas(fields, name)
             THEN [ok |-> FALSE, out |-> RaisedFor("KeyError", name)]
             ELSE AllOptionalOperationsLoop(a, name, field, extras, j + 1,
                                 DictSet(fields, ExtraKey(name, extra_name),
                                         DictGet(fields, name)))

RECURSIVE AllOptionalExtrasLoop(_, _, _, _)
AllOptionalExtrasLoop(a, m2m, i, st) ==
    IF i > Len(m2m) THEN Returned(PyDict(st.fields))
    ELSE LET name == m2m[i][1] IN
         IF ~DictHas(st.fields_lookup, name)
         THEN RaisedFor("GraphQLError", name)
         ELSE LET r == AllOptionalOperationsLoop(a, name, DictGet(st.fields_lookup, name),
                                                 m2m[i][2].items, 1, st.fields)
              IN  IF r.ok
                  THEN AllOptionalExtrasLoop(a, m2m, i + 1, [st EXCEPT !.fields = r.fields])
                  ELSE r.out

get_all_optional_input_fields_for_model(a) ==
    AllOptionalExtrasLoop(a, OrEmptyDict(a.many_to_many_extras).items, 1,
               AllOptionalBaseLoop(a, 1, [fields |-> <<>>, fields_lookup |-> <<>>]))

(* ------------------------------------------------------------------------ *)
(* Bounds of the model                                                      *)
(* ------------------------------------------------------------------------ *)
MaxTokLen == 4
MaxInt == 3
MaxIterLen == 4
MaxFields == 2
MaxOps == 2

(* ------------------------------------------------------------------------ *)
(* Inputs                                                                   *)
(* ------------------------------------------------------------------------ *)
TokChars == B64Alphabet \cup {"-"}

Tokens ==
    {PyInt(n) : n \in (0 - MaxInt)..MaxInt}
      \cup {PyStr(s) : s \in SeqsUpTo(TokChars, MaxTokLen)}
      \cup {PyNone}

\* Sequences without repetition.
DistinctSeqsUpTo(S, n) ==
    {s \in SeqsUpTo(S, n) : \A i, j \in 1..Len(s) : i # j => s[i] # s[j]}

\* Field names: "t", "t_a" (which is also "t" + "_" + "a") and "r+", a
\* relation without a backward reference.
NameT == <<"t">>
NameTA == <<"t", "_", "a">>
NameR == <<"r", "+">>
FieldNames == {NameT, NameTA, NameR}

OpA == <<"a">>
OpB == <<"b">>

\* A configuration object that declares a type.
TypedConfig == PyDict(<< <<"type", "TInput">> >>)

\* The reflected fields of a model: (name, field) pairs with distinct
\* names; the primary key, when it is among them, is the first.
Models ==
    {[i \in 1..Len(ns) |-> <<ns[i], [name |-> ns[i], primary_key |-> (i = pk)]>>] :
        <<ns, pk>> \in {np \in DistinctSeqsUpTo(FieldNames, MaxFields) \X (0..1) :
                          np[2] <= Len(np[1])}}

\* The operations of one field, each with its configuration value.
OperationEntries ==
    {<<OpExact, PyBool(TRUE)>>, <<OpA, PyBool(TRUE)>>, <<OpB, TypedConfig>>}

OperationDicts ==
    {PyDict(e) : e \in {x \in DistinctSeqsUpTo(OperationEntries, MaxOps) :
                          \A i, j \in 1..Len(x) : i # j => x[i][1] # x[j][1]}}

\* The field names extras are declared for.
ExtrasNames == {NameT, NameTA}

\* Extras configurations: field name -> operation -> configuration value,
\* in every order of the names.
ExtrasDicts ==
    {PyDict(e) : e \in {x \in SeqsUpTo(ExtrasNames \X OperationDicts,
                                       Cardinality(ExtrasNames)) :
                          \A i, j \in 1..Len(x) : i # j => x[i][1] # x[j][1]}}

ExtrasArgs == ExtrasDicts \cup {PyNone}

FkForT == PyDict(<< <<NameT, TypedConfig>> >>)

\* only_fields, exclude_fields, optional_fields, required_fields and
\* foreign_key_extras of a call of the regular builder; the first two are
\* the sets of their elements.
Options ==
    {<<{}, {}, {}, {}, PyNone>>,
     <<{}, {}, {}, {NameT}, FkForT>>,
     <<{NameT}, {}, {NameT}, {NameT}, FkForT>>,
     <<{}, {NameTA}, {}, {NameT}, PyNone>>}

\* only_fields, exclude_fields and foreign_key_extras of a call of the
\* all-optional builder.
AllOptionalOptions ==
    {<<{}, {}, PyNone>>, <<{NameT}, {}, FkForT>>, <<{}, {NameTA}, FkForT>>}

\* The fields for which convert_many_to_many_field yields nothing.
NothingSets == {{}, {NameTA}}

NestedElements == {PyStr(NameT), PyStr(NameTA), PyInt(1)}

NestedArgs ==
    {PyNone}
      \cup {PyInt(n) : n \in 0..MaxInt}
      \cup OperationDicts
      \cup {PyList(l) : l \in SeqsUpTo(NestedElements, MaxIterLen)}
      \cup {PyStr(NameT), PyStr(NameTA)}

(* ------------------------------------------------------------------------ *)
(* The calls                                                                *)
(* ------------------------------------------------------------------------ *)
Init ==
    /\ call = "none"
    /\ args = PyNone
    /\ result = PyNone

CallDisambiguateId ==
    /\ call = "none"
    /\ \E token \in Tokens :
         /\ call' = "disambiguate_id"
         /\ args' = [token |-> token]
         /\ result' = disambiguate_id(token)

CallOverloadNestedFields ==
    /\ call = "none"
    /\ \E nested_fields \in NestedArgs :
         /\ call' = "overload_nested_fields"
         /\ args' = [nested_fields |-> nested_fields]
         /\ result' = overload_nested_fields(nested_fields)

CallGetM2mAllExtrasFieldNames ==
    /\ call = "none"
    /\ \E extras \in ExtrasArgs :
         /\ call' = "get_m2m_all_extras_field_names"
         /\ args' = [extras |-> extras]
         /\ result' = get_m2m_all_extras_field_names(extras)

CallGetFkAllExtrasFieldNames ==
    /\ call = "none"
    /\ \E extras \in ExtrasArgs :
         /\ call' = "get_fk_all_extras_field_names"
         /\ args' = [extras |-> extras]
         /\ result' = get_fk_all_extras_field_names(extras)

CallGetInputFieldsForModel ==
    /\ call = "none"
    /\ \E model \in Models, o \in Options, m2m \in ExtrasArgs, nothing \in NothingSets :
         LET a == [model_fields |-> model,
                   only_fields |-> o[1], exclude_fields |-> o[2],
                   optional_fields |-> o[3], required_fields |-> o[4],
                   many_to_many_extras |-> m2m, foreign_key_extras |-> o[5],
                   m2m_nothing |-> nothing]
         IN  /\ call' = "get_input_fields_for_model"
             /\ args' = a
             /\ result' = get_input_fields_for_model(a)

CallGetAllOptionalInputFieldsForModel ==
    /\ call = "none"
    /\ \E model \in Models, o \in AllOptionalOptions, m2m \in ExtrasArgs,
          nothing \in NothingSets :
         LET a == [model_fields |-> model,
                   only_fields |-> o[1], exclude_fields |-> o[2],
                   many_to_many_extras |-> m2m, foreign_key_extras |-> o[3],
                   m2m_nothing |-> nothing]
         IN  /\ call' = "get_all_optional_input_fields_for_model"
             /\ args' = a
             /\ result' = get_all_optional_input_fields_for_model(a)

\* The caller takes the outcome; the module keeps nothing between calls.
Done ==
    /\ call # "none"
    /\ call' = "none"
    /\ args' = PyNone
    /\ result' = PyNone

NextId == CallDisambiguateId \/ Done
SpecId == Init /\ [][NextId]_vars

NextNested == CallOverloadNestedFields \/ Done
SpecNested == Init /\ [][NextNested]_vars

NextNames == CallGetM2mAllExtrasFieldNames \/ CallGetFkAllExtrasFieldNames \/ Done
SpecNames == Init /\ [][NextNames]_vars

NextBuild == CallGetInputFieldsForModel \/ CallGetAllOptionalInputFieldsForModel \/ Done
SpecBuild == Init /\ [][NextBuild]_vars

Next == NextId \/ NextNested \/ NextNames \/ NextBuild
Spec == Init /\ [][Next]_vars


(* ------------------------------------------------------------------------ *)
(* Reference notions the properties are stated with                         *)
(* ------------------------------------------------------------------------ *)
IsDisambiguateCall == call = "disambiguate_id"

IsBuilderCall ==
    call \in {"get_input_fields_for_model", "get_all_optional_input_fields_for_model"}

\* A str that int() accepts: an optional "-" before one or more digits.
NumericString(s) ==
    LET body == IF s # <<>> /\ s[1] = "-" THEN SubSeq(s, 2, Len(s)) ELSE s
    IN  body # <<>> /\ \A i \in 1..Len(body) : body[i] \in Digits

RECURSIVE Pow10(_)
Pow10(n) == IF n = 0 THEN 1 ELSE 10 * Pow10(n - 1)

RECURSIVE SumTo(_, _)
SumTo(f, n) == IF n = 0 THEN 0 ELSE f[n] + SumTo(f, n - 1)

\* The integer a numeric string denotes, by positional value.
NumericValue(s) ==
    LET neg == s[1] = "-"
        body == IF neg THEN SubSeq(s, 2, Len(s)) ELSE s
        terms == [i \in 1..Len(body) |-> DigitVal(body[i]) * Pow10(Len(body) - i)]
        magnitude == SumTo(terms, Len(body))
    IN  IF neg THEN 0 - magnitude ELSE magnitude

\* The concatenation of a sequence of sequences.
RECURSIVE Flatten(_)
Flatten(ss) == IF ss = <<>> THEN <<>> ELSE ss[1] \o Flatten(Tail(ss))

\* A sequence without the later occurrences of its elements.
FirstOccurrences(s) ==
    LET keep == {i \in 1..Len(s) : \A j \in 1..(i - 1) : s[j] # s[i]}
    IN  [n \in 1..Cardinality(keep) |->
           s[CHOOSE i \in keep : Cardinality({h \in keep : h < i}) = n - 1]]

\* The entries of an extras argument: none when it is missing or empty.
EntriesOf(x) == IF x.t = "dict" THEN x.items ELSE <<>>

\* The name an operation of a field is exposed under.
DerivedName(name, op) == name \o <<"_">> \o op

\* The names one entry of an extras configuration stands for.
NamesOfEntry(entry) ==
    [k \in 1..Len(entry[2].items) |->
       IF entry[2].items[k][1] = OpExact THEN entry[1]
       ELSE DerivedName(entry[1], entry[2].items[k][1])]

FlattenedNames(x) ==
    Flatten([i \in 1..Len(EntriesOf(x)) |-> NamesOfEntry(EntriesOf(x)[i])])

\* The derived names of the operations other than "exact" of one entry.
DerivedOfEntry(entry) ==
    LET ops == SelectSeq(entry[2].items, LAMBDA e : e[1] # OpExact)
    IN  [k \in 1..Len(ops) |-> DerivedName(entry[1], ops[k][1])]

\* The derived names of a many_to_many_extras argument, in iteration order.
DerivedKeys(x) ==
    Flatten([i \in 1..Len(EntriesOf(x)) |-> DerivedOfEntry(EntriesOf(x)[i])])

\* The derived names declared for the fields of the set S.
DerivedFor(x, S) ==
    {DerivedName(EntriesOf(x)[i][1], e[1]) :
        <<i, e>> \in {ie \in (1..Len(EntriesOf(x))) \X OperationEntries :
                        /\ EntriesOf(x)[ie[1]][1] \in S
                        /\ ie[2] \in Range(EntriesOf(x)[ie[1]][2].items)
                        /\ ie[2][1] # OpExact}}

ReflectedNames(a) == {a.model_fields[i][1] : i \in 1..Len(a.model_fields)}

NonPkNames(a) ==
    {a.model_fields[i][1] : i \in {h \in 1..Len(a.model_fields) :
                                     ~a.model_fields[h][2].primary_key}}

\* The fields that pass the only / exclude / no-backref filtering.
PassesFilter(a, name) ==
    /\ a.only_fields = {} \/ name \in a.only_fields
    /\ name \notin a.exclude_fields
    /\ name[Len(name)] # "+"

FilteredIn(a) == {name \in NonPkNames(a) : PassesFilter(a, name)}

\* The names of the filtered-in fields, in reflection order.
BaseKeys(a) ==
    LET names == [i \in 1..Len(a.model_fields) |-> a.model_fields[i][1]]
    IN  SelectSeq(names, LAMBDA n : n \in FilteredIn(a))

ResultKeys == DictKeys(result.val.items)

IsSchemaError == result.kind = "raise" /\ result.exc = "GraphQLError"

(* ------------------------------------------------------------------------ *)
(* disambiguate_id                                                          *)
(* ------------------------------------------------------------------------ *)
\* C1: for a token that int() rejects and from_global_id cannot decode,
\* disambiguate_id ends with the decoder's error; it returns no value.
C1_DecodeErrorPropagates ==
    (/\ IsDisambiguateCall
     /\ args.token.t = "str"
     /\ ~NumericString(args.token.s)
     /\ ~from_global_id(args.token).ok)
        => result.out.kind = "raise"

\* C3: for a token that from_global_id decodes to (type name, n),
\* disambiguate_id returns the integer n.
C3_GlobalIdGivesInteger ==
    (/\ IsDisambiguateCall
     /\ args.token.t = "str"
     /\ ~NumericString(args.token.s)
     /\ from_global_id(args.token).ok
     /\ NumericString(from_global_id(args.token).id.s))
        => result.out = Returned(PyInt(NumericValue(from_global_id(args.token).id.s)))

\* C8: for an integer or a numeric string t, disambiguate_id returns
\* int(t) and from_global_id is not called.
C8_IntegerParsedFirst ==
    /\ (IsDisambiguateCall /\ args.token.t = "int")
          => (result.out = Returned(PyInt(args.token.n)) /\ ~result.decoded)
    /\ (IsDisambiguateCall /\ args.token.t = "str" /\ NumericString(args.token.s))
          => (/\ result.out = Returned(PyInt(NumericValue(args.token.s)))
              /\ ~result.decoded)

\* A negative numeric string of two digits has been disambiguated.
C8_Witness ==
    /\ IsDisambiguateCall
    /\ args.token = PyStr(<<"-", "1", "0">>)
    /\ result.out = Returned(PyInt(0 - 10))

(* ------------------------------------------------------------------------ *)
(* overload_nested_fields                                                   *)
(* ------------------------------------------------------------------------ *)
\* C7: overload_nested_fields gives {} for None, the mapping itself for a
\* mapping, name -> ["all"] for an iterable of strings, a ValueError for an
\* iterable with an element that is not a string, and {} for anything else.
C7_NestedFieldsReference ==
    call = "overload_nested_fields" =>
        LET x == args.nested_fields
            els == IterItems(x)
        IN  CASE x.t = "none" -> result = Returned(PyDict(<<>>))
              [] x.t = "dict" -> result = Returned(x)
              [] x.t \in {"list", "str"} ->
                   IF \A i \in 1..Len(els) : els[i].t = "str"
                   THEN /\ result.kind = "return"
                        /\ result.val.t = "dict"
                        /\ Range(ResultKeys) = {els[i].s : i \in 1..Len(els)}
                        /\ Len(ResultKeys) = Cardinality(Range(ResultKeys))
                        /\ \A i \in 1..Len(result.val.items) :
                              result.val.items[i][2]
                                 = [t |-> "list", items |-> <<PyStr(<<"a", "l", "l">>)>>]
                   ELSE result = Raised("ValueError")
              [] OTHER -> result = Returned(PyDict(<<>>))

\* A list of two different names has been normalized.
C7_Witness ==
    /\ call = "overload_nested_fields"
    /\ args.nested_fields = PyList(<<PyStr(NameT), PyStr(NameTA)>>)
    /\ result.kind = "return"
    /\ ResultKeys = <<NameT, NameTA>>

(* ------------------------------------------------------------------------ *)
(* get_m2m_all_extras_field_names, get_fk_all_extras_field_names            *)
(* ------------------------------------------------------------------------ *)
\* C4 as stated: both functions return the flattened derived names, one per
\* (name, operation) pair: the name for "exact", name_operation otherwise.
C4_BothFlatten ==
    call \in {"get_m2m_all_extras_field_names", "get_fk_all_extras_field_names"}
        => (result.kind = "return" /\ result.val.items = FlattenedNames(args.extras))

\* C4 as amended: get_m2m_all_extras_field_names returns the list of the
\* flattened derived names; get_fk_all_extras_field_names returns the keys
\* of the configuration, one per field name in iteration order, whatever
\* operations are declared; a missing or empty configuration gives [].
C4_M2mFlattensFkGivesKeys ==
    /\ call = "get_m2m_all_extras_field_names"
          => result = Returned(PyList(FlattenedNames(args.extras)))
    /\ call = "get_fk_all_extras_field_names"
          => /\ result.kind = "return"
             /\ result.val.items
                  = [i \in 1..Len(EntriesOf(args.extras)) |-> EntriesOf(args.extras)[i][1]]
             /\ EntriesOf(args.extras) = <<>> => result.val = PyList(<<>>)

\* The foreign-key helper was given a field with two operations and
\* returned the one field name.
C4_Witness ==
    /\ call = "get_fk_all_extras_field_names"
    /\ Len(EntriesOf(args.extras)) = 1
    /\ Len(EntriesOf(args.extras)[1][2].items) = 2
    /\ Len(result.val.items) = 1

(* ------------------------------------------------------------------------ *)
(* The builders                                                             *)
(* ------------------------------------------------------------------------ *)
\* C2 as stated: every key of the returned mapping is a filtered-in field
\* that is not the primary key, or name_operation for such a filtered-in
\* field and an operation other than "exact" declared for it.
C2_KeysOfFilteredFields ==
    (IsBuilderCall /\ result.kind = "return") =>
        \A i \in 1..Len(ResultKeys) :
            \/ ResultKeys[i] \in FilteredIn(args)
            \/ ResultKeys[i] \in DerivedFor(args.many_to_many_extras, FilteredIn(args))

\* C2 as amended: every key of the returned mapping is a filtered-in field
\* that is not the primary key, or name_operation where name is a reflected
\* field that is not the primary key, filtered in or not, and the operation
\* is one other than "exact" declared for it.
C2_KeysOfReflectedFields ==
    (IsBuilderCall /\ result.kind = "return") =>
        \A i \in 1..Len(ResultKeys) :
            \/ ResultKeys[i] \in FilteredIn(args)
            \/ ResultKeys[i] \in DerivedFor(args.many_to_many_extras, NonPkNames(args))

\* A builder returned a key derived from a field that was filtered out.
C2_Witness ==
    /\ IsBuilderCall
    /\ result.kind = "return"
    /\ \E i \in 1..Len(ResultKeys) :
          /\ ResultKeys[i] \notin FilteredIn(args)
          /\ ResultKeys[i] \in DerivedFor(args.many_to_many_extras,
                                          NonPkNames(args) \ FilteredIn(args))

\* The first entry of many_to_many_extras whose key is no reflected field
\* other than the primary key; 0 when there is none.
FirstUnknown(a) ==
    LET es == EntriesOf(a.many_to_many_extras)
        bad == {i \in 1..Len(es) : es[i][1] \notin NonPkNames(a)}
    IN  IF bad = {} THEN 0 ELSE CHOOSE i \in bad : \A j \in bad : i <= j

\* The keys stored when operation k of entry j is reached.
StoredBefore(a, j, k) ==
    LET es == EntriesOf(a.many_to_many_extras)
    IN  FilteredIn(a)
          \cup Range(Flatten([i \in 1..(j - 1) |-> DerivedOfEntry(es[i])]))
          \cup {DerivedName(es[j][1], es[j][2].items[h][1]) :
                  h \in {g \in 1..(k - 1) : es[j][2].items[g][1] # OpExact}}

\* Entry j has an operation whose conversion yields nothing while nothing
\* is stored under the name of its field.
LookupFails(a, j) ==
    LET es == EntriesOf(a.many_to_many_extras)
    IN  \E k \in 1..Len(es[j][2].items) :
            /\ es[j][2].items[k][1] # OpExact
            /\ es[j][1] \in a.m2m_nothing
            /\ es[j][1] \notin StoredBefore(a, j, k)

\* C5 as stated: a builder fails with a schema error exactly when some key
\* of many_to_many_extras is not the name of a reflected field.
C5_SchemaErrorIffNotReflected ==
    IsBuilderCall =>
        (IsSchemaError <=>
           \E i \in 1..Len(EntriesOf(args.many_to_many_extras)) :
               EntriesOf(args.many_to_many_extras)[i][1] \notin ReflectedNames(args))

\* C5 as amended: a builder fails with a schema error, naming the field,
\* exactly when some key of many_to_many_extras is not the name of a
\* reflected field other than the primary key and no entry before the first
\* such key ends the call with a failed lookup; when every key names a
\* reflected field other than the primary key, there is no schema error.
C5_SchemaErrorIffNotNonPk ==
    IsBuilderCall =>
        LET u == FirstUnknown(args) IN
        /\ IsSchemaError <=> (u # 0 /\ \A j \in 1..(u - 1) : ~LookupFails(args, j))
        /\ IsSchemaError => result.field = EntriesOf(args.many_to_many_extras)[u][1]

\* A builder raised the schema error for the primary key, a reflected field.
C5_Witness ==
    /\ IsBuilderCall
    /\ IsSchemaError
    /\ result.field \in ReflectedNames(args)

\* The regular builder's arguments for an all-optional call: every field
\* name in optional_fields, r as required_fields.
WithAllOptional(a, r) ==
    [model_fields |-> a.model_fields,
     only_fields |-> a.only_fields, exclude_fields |-> a.exclude_fields,
     optional_fields |-> ReflectedNames(a), required_fields |-> r,
     many_to_many_extras |-> a.many_to_many_extras,
     foreign_key_extras |-> a.foreign_key_extras,
     m2m_nothing |-> a.m2m_nothing]

\* C6: get_all_optional_input_fields_for_model has the outcome of
\* get_input_fields_for_model called with the same arguments and every field
\* name in optional_fields, whatever required_fields is.
C6_AllOptionalIsRegularWithOptional ==
    call = "get_all_optional_input_fields_for_model" =>
        \A r \in SUBSET ReflectedNames(args) :
            result = get_input_fields_for_model(WithAllOptional(args, r))

\* The all-optional builder returned a base key and a derived key.
C6_Witness ==
    /\ call = "get_all_optional_input_fields_for_model"
    /\ result.kind = "return"
    /\ Len(ResultKeys) >= 2
    /\ \E i \in 1..Len(ResultKeys) : ResultKeys[i] \in FilteredIn(args)
    /\ \E i \in 1..Len(ResultKeys) : ResultKeys[i] \notin FilteredIn(args)

\* C9: when every key of many_to_many_extras names a reflected field other
\* than the primary key, the call completes without error and a value is
\* stored under name_operation for every operation other than "exact", also
\* when the conversion yields nothing.
C9_ExtrasFallbackCompletes ==
    (IsBuilderCall /\ FirstUnknown(args) = 0) =>
        /\ result.kind = "return"
        /\ Range(DerivedKeys(args.many_to_many_extras)) \subseteq Range(ResultKeys)

\* C10 as stated: the keys are the base keys in reflection order followed
\* by one key per operation other than "exact", in iteration order, also
\* when a derived key is the name of a field.
C10_ExtrasAfterBaseKeys ==
    (IsBuilderCall /\ result.kind = "return") =>
        ResultKeys = BaseKeys(args) \o DerivedKeys(args.many_to_many_extras)

\* C10 as amended: the keys are the base keys in reflection order followed
\* by the derived keys that are not base keys, in the order of their first
\* occurrence in the iteration; a derived key that is a base key stays at
\* the position of that base key.
C10_NewExtrasAfterBaseKeys ==
    (IsBuilderCall /\ result.kind = "return") =>
        ResultKeys =
            BaseKeys(args)
              \o FirstOccurrences(SelectSeq(DerivedKeys(args.many_to_many_extras),
                                            LAMBDA k : k \notin Range(BaseKeys(args))))

\* A builder returned with a derived key that is the name of a base field
\* placed before another base field, and with a new derived key after it.
C10_Witness ==
    /\ IsBuilderCall
    /\ result.kind = "return"
    /\ BaseKeys(args) = <<NameTA, NameT>>
    /\ \E i \in 1..Len(DerivedKeys(args.many_to_many_extras)) :
          DerivedKeys(args.many_to_many_extras)[i] = NameTA
    /\ Len(ResultKeys) > 2

====
